---- MODULE Spec2Model ----
(***************************************************************************)
(* Interaction / request state machine of the Pathfinder app (src/App.js): *)
(* permission gate, mode selector, capture-and-describe pipeline           *)
(* (processImage) and the speech announcer (updateMessage / speak).        *)
(*                                                                         *)
(* React state is modelled as rendered: every event handler, and every     *)
(* continuation of an async function between two awaits, is one atomic     *)
(* step whose state updates are committed before the next event is         *)
(* delivered.  The values an async function reads from its closure         *)
(* (currentMode, cameraReady) are those of the render in which the         *)
(* function was invoked.                                                   *)
(***************************************************************************)
EXTENDS Integers, Sequences, FiniteSets, TLC

(* Largest number of processImage invocations that pass the readiness
   check in one session. *)
MaxCaptures == 2

VARIABLES
    cameraModule,       \* environment: the expo-camera module is present (Camera truthy)
    hasPermission,      \* useState(null): "null" | "true" | "false"
    cameraReady,        \* useState(false)
    currentMode,        \* useState('passive')
    message,            \* useState('Initializing app...')
    isProcessing,       \* useState(false)
    permPc,             \* position of requestPermissions: "mount" | "awaiting" | "timer" | "done"
    permissionMessage,  \* local of requestPermissions, read by the timer callback
    speech,             \* utterance queue of the speech channel (head is being spoken)
    inflight,           \* processImage invocations past the readiness check, oldest first
    started,            \* number of processImage invocations that passed the readiness check
    permAnnounced,      \* history: number of times requestPermissions announced its status
    lastOp              \* history: the operation performed by the last step

vars == <<cameraModule, hasPermission, cameraReady, currentMode, message,
          isProcessing, permPc, permissionMessage, speech, inflight, started,
          permAnnounced, lastOp>>

Modes == {"read", "navigate", "passive"}

-----------------------------------------------------------------------------
(* Message strings of the application. *)

InitialMessage == "Initializing app..."
RequestingMessage == "Requesting camera and speech permissions..."
ModuleNotFoundMessage == "Camera module not found or not functional."
GrantedMessage == "Camera and Speech permissions granted. Select a mode and tap the button."
CameraDeniedMessage == "Camera permission not granted. Please enable it in settings. "
SpeechDeniedMessage == "Speech permission not granted. Please enable it in settings."
CameraNotReadyMessage == "Camera not ready. Please wait or refresh the app."
AnalyzingMessage == "Analyzing image, please wait..."
FallbackMessage == "No clear description was generated. Please try again."
StoppedMessage == "Stopped all operations"

(* The value displayed and handed to Speech.speak when description is the
   JavaScript value undefined. *)
UndefinedText == "<undefined>"

PermissionErrorMessage(e) == "Error requesting permissions: " \o e \o "."

DeniedMessage(cameraGranted, speechGranted) ==
    LET m0 == ""
        m1 == IF ~cameraGranted THEN m0 \o CameraDeniedMessage ELSE m0
    IN  IF ~speechGranted THEN m1 \o SpeechDeniedMessage ELSE m1

ModeMessage(m) ==
    CASE m = "read" -> "Mode set to Read. Tap \"Read Document\" to scan text."
      [] m = "navigate" -> "Mode set to Navigate. Tap \"Get Navigation Cues\" for indoor guidance."
      [] OTHER -> "Mode set to Passive. Tap \"Describe Environment\" for general descriptions."

getPromptForMode(mode) ==
    CASE mode = "read" -> "Extract all readable text from this image. No extra commentary or explanation. Prioritize the most important text."
      [] mode = "navigate" -> "Describe the immediate environment for indoor navigation. Identify key objects, obstacles, pathways, and directional cues. Mention any furniture, doors, stairs, changes in floor level, or other significant features. Provide guidance on what's directly in front, to the left, and to the right. Highlight potential hazards or clear paths."
      [] OTHER -> "Describe the scene briefly. Focus on elements that would be helpful for a visually impaired person to navigate or understand their surroundings. For example, if there's text, read it out. If there are obstacles, describe them. Be concise but informative."

FailureMessage_generic(e) == "Failed to get description. Please try again."

FailureMessage(e) == "Failed to get description: " \o e \o ". Please try again."

-----------------------------------------------------------------------------
(* Speech channel (expo-speech): speak enqueues an utterance, stop drops the
   current utterance and everything queued. *)

SpeechStop(q) == <<>>

SpeechSpeak(q, text) == Append(q, text)

speak_enqueue(q, text) == SpeechSpeak(q, text)

speak(q, text) == SpeechSpeak(SpeechStop(q), text)

(* updateMessage(msg, shouldSpeak): the speech channel after the call. *)
updateMessage(q, msg, shouldSpeak) == IF shouldSpeak THEN speak(q, msg) ELSE q

-----------------------------------------------------------------------------
(* JSON values, tagged by their JavaScript kind. *)

Undef == [k |-> "undefined"]
Null == [k |-> "null"]
Str(s) == [k |-> "string", v |-> s]
Arr(s) == [k |-> "array", v |-> s]
Obj(r) == [k |-> "object", v |-> r]

(* Reading a property of undefined or null throws a TypeError. *)
CanRead(x) == x.k \notin {"undefined", "null"}

Truthy(x) ==
    CASE x.k = "undefined" -> FALSE
      [] x.k = "null" -> FALSE
      [] x.k = "string" -> x.v # ""
      [] OTHER -> TRUE

Prop(x, f) == IF x.k = "object" /\ f \in DOMAIN x.v THEN x.v[f] ELSE Undef

(* x.length > 0 *)
LengthPositive(x) == x.k \in {"array", "string"} /\ Len(x.v) > 0

(* x[0] of an array *)
First(x) == IF x.k = "array" /\ Len(x.v) > 0 THEN x.v[1] ELSE Undef

TextPart(s) == Obj([text |-> Str(s)])
ImagePart == Obj([inlineData |-> Obj([mimeType |-> Str("image/jpeg")])])
Candidate(parts) == Obj([content |-> Obj([parts |-> Arr(parts)])])

(* The response bodies the inference endpoint is taken to return. *)
Responses ==
    << Obj([candidates |-> Arr(<< Candidate(<< TextPart("Room 204") >>) >>)]),
       Obj([candidates |-> Arr(<< >>)]),
       Obj([error |-> Obj([code |-> Str("400")])]),
       Obj([candidates |-> Arr(<< Obj([finishReason |-> Str("SAFETY")]) >>)]),
       Obj([candidates |-> Arr(<< Obj([content |-> Obj([role |-> Str("model")])]) >>)]),
       Obj([candidates |-> Arr(<< Candidate(<< >>) >>)]),
       Obj([candidates |-> Arr(<< Candidate(<< ImagePart >>) >>)]),
       Null,
       Obj([candidates |-> Arr(<< Candidate(<< TextPart("Exit"), TextPart("Room 204") >>),
                                  Candidate(<< TextPart("Stairs ahead") >>) >>)]),
       Obj([candidates |-> Arr(<< Null >>)]) >>

NumResponses == Len(Responses)

Thrown(e) == [throws |-> TRUE, text |-> e]
Returned(t) == [throws |-> FALSE, text |-> t]

(* Lines 161-168 of processImage: the description taken from the parsed
   result, or the TypeError raised while reading it. *)
ExtractDescription(result) ==
    IF ~CanRead(result) THEN Thrown("Cannot read property 'candidates' of null")
    ELSE LET candidates == Prop(result, "candidates") IN
    IF ~(Truthy(candidates) /\ LengthPositive(candidates)) THEN Returned(FallbackMessage)
    ELSE LET c0 == First(candidates) IN
    IF ~CanRead(c0) THEN Thrown("Cannot read property 'content' of null")
    ELSE LET content == Prop(c0, "content") IN
    IF ~Truthy(content) THEN Returned(FallbackMessage)
    ELSE LET parts == Prop(content, "parts") IN
    IF ~(Truthy(parts) /\ LengthPositive(parts)) THEN Returned(FallbackMessage)
    ELSE LET p0 == First(parts) IN
    IF ~CanRead(p0) THEN Thrown("Cannot read property 'text' of null")
    ELSE LET text == Prop(p0, "text") IN
         IF text.k = "string" THEN Returned(text.v) ELSE Returned(UndefinedText)

(* The outcome of lines 161-168 for each response body. *)
Descriptions == [r \in 1..NumResponses |-> ExtractDescription(Responses[r])]

(* Error messages of the rejected awaits. *)
CaptureErrors == {"Camera is not running"}
FetchErrors == {"timeout"}
JsonErrors == {"JSON Parse error: Unexpected token"}

-----------------------------------------------------------------------------
(* History record of a step. *)
Op(op, text, resp, stopped, pre) ==
    [op |-> op, text |-> text, resp |-> resp, stopped |-> stopped, pre |-> pre]

Remove(s, i) == SubSeq(s, 1, i - 1) \o SubSeq(s, i + 1, Len(s))

(* The main UI (camera view, mode buttons, capture and stop buttons) is
   rendered only past the two permission screens. *)
MainUIRendered_notDenied == hasPermission # "false"

MainUIRendered == hasPermission # "null" /\ hasPermission # "false"

(* cameraRef.current: set while the CameraView is mounted. *)
cameraRefCurrent == MainUIRendered /\ cameraModule

Init ==
    /\ cameraModule \in BOOLEAN
    /\ hasPermission = "null"
    /\ cameraReady = FALSE
    /\ currentMode = "passive"
    /\ message = InitialMessage
    /\ isProcessing = FALSE
    /\ permPc = "mount"
    /\ permissionMessage = ""
    /\ speech = <<>>
    /\ inflight = <<>>
    /\ started = 0
    /\ permAnnounced = 0
    /\ lastOp = Op("init", "", 0, FALSE, FALSE)

-----------------------------------------------------------------------------
(* Permission gate: requestPermissions, run once by the mount effect. *)

requestPermissions ==
    /\ permPc = "mount"
    /\ IF cameraModule
       THEN /\ message' = RequestingMessage
            /\ permissionMessage' = RequestingMessage
            /\ permPc' = "awaiting"
            /\ lastOp' = Op("request", "", 0, FALSE, FALSE)
            /\ UNCHANGED <<hasPermission, speech, permAnnounced>>
       ELSE /\ hasPermission' = "false"
            /\ permissionMessage' = ModuleNotFoundMessage
            /\ message' = ModuleNotFoundMessage
            /\ speech' = updateMessage(updateMessage(speech, RequestingMessage, FALSE),
                                       ModuleNotFoundMessage, TRUE)
            /\ permPc' = "timer"
            /\ permAnnounced' = permAnnounced + 1
            /\ lastOp' = Op("noModule", ModuleNotFoundMessage, 0, FALSE, speech # <<>>)
    /\ UNCHANGED <<cameraModule, cameraReady, currentMode, isProcessing, inflight, started>>

(* Camera.requestCameraPermissionsAsync() resolved with the given status. *)
permissionsResolved(status) ==
    /\ permPc = "awaiting"
    /\ LET cameraGranted == status = "granted"
           speechGranted == TRUE
       IN  IF cameraGranted /\ speechGranted
           THEN /\ hasPermission' = "true"
                /\ permissionMessage' = GrantedMessage
                /\ currentMode' = "passive"
           ELSE /\ hasPermission' = "false"
                /\ permissionMessage' = DeniedMessage(cameraGranted, speechGranted)
                /\ UNCHANGED currentMode
    /\ permPc' = "timer"
    /\ lastOp' = Op("permission", status, 0, FALSE, FALSE)
    /\ UNCHANGED <<cameraModule, permAnnounced, cameraReady, message, isProcessing, speech, inflight, started>>

(* Camera.requestCameraPermissionsAsync() rejected with an error. *)
permissionsRejected(e) ==
    /\ permPc = "awaiting"
    /\ permissionMessage' = PermissionErrorMessage(e)
    /\ hasPermission' = "false"
    /\ permPc' = "timer"
    /\ lastOp' = Op("permissionError", e, 0, FALSE, FALSE)
    /\ UNCHANGED <<cameraModule, permAnnounced, cameraReady, currentMode, message, isProcessing,
                   speech, inflight, started>>

(* The 500 ms timer set in the finally block fires. *)
permissionTimer ==
    /\ permPc = "timer"
    /\ message' = permissionMessage
    /\ speech' = updateMessage(speech, permissionMessage, TRUE)
    /\ permPc' = "done"
    /\ permAnnounced' = permAnnounced + 1
    /\ lastOp' = Op("permissionAnnounce", permissionMessage, 0, FALSE, speech # <<>>)
    /\ UNCHANGED <<cameraModule, hasPermission, cameraReady, currentMode, isProcessing,
                   permissionMessage, inflight, started>>

-----------------------------------------------------------------------------
(* Main UI. *)

onCameraReady ==
    /\ MainUIRendered
    /\ cameraModule
    /\ ~cameraReady
    /\ cameraReady' = TRUE
    /\ lastOp' = Op("cameraReady", "", 0, FALSE, FALSE)
    /\ UNCHANGED <<cameraModule, permAnnounced, hasPermission, currentMode, message, isProcessing,
                   permPc, permissionMessage, speech, inflight, started>>

ModeButtonPress_cancels(m) ==
    /\ MainUIRendered
    /\ currentMode' = m
    /\ isProcessing' = FALSE
    /\ message' = ModeMessage(m)
    /\ speech' = updateMessage(speech, ModeMessage(m), TRUE)
    /\ lastOp' = Op("mode", m, 0, FALSE, speech # <<>>)
    /\ UNCHANGED <<cameraModule, permAnnounced, hasPermission, cameraReady, permPc,
                   permissionMessage, inflight, started>>

ModeButtonPress(m) ==
    /\ MainUIRendered
    /\ currentMode' = m
    /\ message' = ModeMessage(m)
    /\ speech' = updateMessage(speech, ModeMessage(m), TRUE)
    /\ lastOp' = Op("mode", m, 0, FALSE, speech # <<>>)
    /\ UNCHANGED <<cameraModule, permAnnounced, hasPermission, cameraReady, isProcessing, permPc,
                   permissionMessage, inflight, started>>

StopButtonPress_keepProcessing ==
    /\ MainUIRendered
    /\ message' = StoppedMessage
    /\ speech' = updateMessage(SpeechStop(speech), StoppedMessage, TRUE)
    /\ inflight' = [i \in DOMAIN inflight |-> [inflight[i] EXCEPT !.stopped = TRUE]]
    /\ lastOp' = Op("stop", StoppedMessage, 0, inflight # <<>>, speech # <<>>)
    /\ UNCHANGED <<cameraModule, permAnnounced, hasPermission, cameraReady, currentMode, isProcessing,
                   permPc, permissionMessage, started>>

StopButtonPress ==
    /\ MainUIRendered
    /\ isProcessing' = FALSE
    /\ message' = StoppedMessage
    /\ speech' = updateMessage(SpeechStop(speech), StoppedMessage, TRUE)
    /\ inflight' = [i \in DOMAIN inflight |-> [inflight[i] EXCEPT !.stopped = TRUE]]
    /\ lastOp' = Op("stop", StoppedMessage, 0, inflight # <<>>, speech # <<>>)
    /\ UNCHANGED <<cameraModule, permAnnounced, hasPermission, cameraReady, currentMode, permPc,
                   permissionMessage, started>>

-----------------------------------------------------------------------------
(* Capture-and-describe pipeline. *)

(* The readiness check of processImage. *)
CameraNotReady_refOnly == ~cameraRefCurrent

CameraNotReady == ~cameraReady \/ ~cameraRefCurrent

CaptureDisabled_ignoresProcessing == ~cameraReady \/ ~cameraModule

(* The disabled prop of the capture button; the Speech namespace import is
   always truthy. *)
CaptureDisabled == ~cameraReady \/ isProcessing \/ ~cameraModule

processImage_noStop ==
    IF CameraNotReady
    THEN /\ message' = CameraNotReadyMessage
         /\ speech' = updateMessage(speech, CameraNotReadyMessage, TRUE)
         /\ lastOp' = Op("notReady", CameraNotReadyMessage, 0, FALSE, speech # <<>>)
         /\ UNCHANGED <<cameraModule, permAnnounced, hasPermission, cameraReady, currentMode,
                        isProcessing, permPc, permissionMessage, inflight, started>>
    ELSE /\ started < MaxCaptures
         /\ isProcessing' = TRUE
         /\ message' = AnalyzingMessage
         /\ speech' = updateMessage(speech, AnalyzingMessage, FALSE)
         /\ inflight' = Append(inflight, [pc |-> "capturing", mode |-> currentMode,
                                          stopped |-> FALSE, prompt |-> ""])
         /\ started' = started + 1
         /\ lastOp' = Op("capture", AnalyzingMessage, 0, FALSE, speech # <<>>)
         /\ UNCHANGED <<cameraModule, permAnnounced, hasPermission, cameraReady, currentMode,
                        permPc, permissionMessage>>

(* processImage up to its first await. *)
processImage ==
    IF CameraNotReady
    THEN /\ message' = CameraNotReadyMessage
         /\ speech' = updateMessage(speech, CameraNotReadyMessage, TRUE)
         /\ lastOp' = Op("notReady", CameraNotReadyMessage, 0, FALSE, speech # <<>>)
         /\ UNCHANGED <<cameraModule, permAnnounced, hasPermission, cameraReady, currentMode, isProcessing,
                        permPc, permissionMessage, inflight, started>>
    ELSE /\ started < MaxCaptures
         /\ isProcessing' = TRUE
         /\ message' = AnalyzingMessage
         /\ speech' = SpeechStop(updateMessage(speech, AnalyzingMessage, FALSE))
         /\ inflight' = Append(inflight, [pc |-> "capturing", mode |-> currentMode,
                                          stopped |-> FALSE, prompt |-> ""])
         /\ started' = started + 1
         /\ lastOp' = Op("capture", AnalyzingMessage, 0, FALSE, speech # <<>>)
         /\ UNCHANGED <<cameraModule, permAnnounced, hasPermission, cameraReady, currentMode,
                        permPc, permissionMessage>>

CaptureButtonPress ==
    /\ MainUIRendered
    /\ ~CaptureDisabled
    /\ processImage

takePictureResolved_liveMode(i) ==
    /\ inflight[i].pc = "capturing"
    /\ inflight' = [inflight EXCEPT ![i].pc = "fetching",
                                    ![i].prompt = getPromptForMode(currentMode)]
    /\ lastOp' = Op("photo", "", 0, inflight[i].stopped, FALSE)
    /\ UNCHANGED <<cameraModule, permAnnounced, hasPermission, cameraReady, currentMode,
                   message, isProcessing, permPc, permissionMessage, speech, started>>

(* takePictureAsync resolved: the prompt is derived from the mode of the
   render that invoked processImage, and the request is sent. *)
takePictureResolved(i) ==
    /\ inflight[i].pc = "capturing"
    /\ inflight' = [inflight EXCEPT ![i].pc = "fetching",
                                    ![i].prompt = getPromptForMode(inflight[i].mode)]
    /\ lastOp' = Op("photo", "", 0, inflight[i].stopped, FALSE)
    /\ UNCHANGED <<cameraModule, permAnnounced, hasPermission, cameraReady, currentMode, message,
                   isProcessing, permPc, permissionMessage, speech, started>>

(* fetch resolved with a response (of any HTTP status). *)
fetchResolved(i) ==
    /\ inflight[i].pc = "fetching"
    /\ inflight' = [inflight EXCEPT ![i].pc = "parsing"]
    /\ lastOp' = Op("response", "", 0, inflight[i].stopped, FALSE)
    /\ UNCHANGED <<cameraModule, permAnnounced, hasPermission, cameraReady, currentMode, message,
                   isProcessing, permPc, permissionMessage, speech, started>>

(* End of invocation i: text is announced, then the finally block runs. *)
Complete_noFinally(i, text, op) ==
    /\ message' = text
    /\ speech' = updateMessage(speech, text, TRUE)
    /\ inflight' = Remove(inflight, i)
    /\ lastOp' = op
    /\ UNCHANGED <<cameraModule, permAnnounced, hasPermission, cameraReady, currentMode, isProcessing,
                   permPc, permissionMessage, started>>

Complete_discardStopped(i, text, op) ==
    /\ message' = IF inflight[i].stopped THEN message ELSE text
    /\ speech' = IF inflight[i].stopped THEN speech ELSE updateMessage(speech, text, TRUE)
    /\ isProcessing' = FALSE
    /\ inflight' = Remove(inflight, i)
    /\ lastOp' = op
    /\ UNCHANGED <<cameraModule, permAnnounced, hasPermission, cameraReady, currentMode, permPc,
                   permissionMessage, started>>

Complete_displayOnly(i, text, op) ==
    /\ message' = text
    /\ speech' = updateMessage(speech, text, FALSE)
    /\ isProcessing' = FALSE
    /\ inflight' = Remove(inflight, i)
    /\ lastOp' = op
    /\ UNCHANGED <<cameraModule, permAnnounced, hasPermission, cameraReady, currentMode, permPc,
                   permissionMessage, started>>

Complete_speakOnly(i, text, op) ==
    /\ speech' = speak(speech, text)
    /\ isProcessing' = FALSE
    /\ inflight' = Remove(inflight, i)
    /\ lastOp' = op
    /\ UNCHANGED <<cameraModule, permAnnounced, hasPermission, cameraReady, currentMode,
                   message, permPc, permissionMessage, started>>

Complete(i, text, op) ==
    /\ message' = text
    /\ speech' = updateMessage(speech, text, TRUE)
    /\ isProcessing' = FALSE
    /\ inflight' = Remove(inflight, i)
    /\ lastOp' = op
    /\ UNCHANGED <<cameraModule, permAnnounced, hasPermission, cameraReady, currentMode, permPc,
                   permissionMessage, started>>

Catch_unhandled(i, e, r) ==
    /\ isProcessing' = FALSE
    /\ inflight' = Remove(inflight, i)
    /\ lastOp' = Op("fail", e, r, inflight[i].stopped, FALSE)
    /\ UNCHANGED <<cameraModule, permAnnounced, hasPermission, cameraReady, currentMode,
                   message, speech, permPc, permissionMessage, started>>

(* The catch block: error e of invocation i, raised while handling response r
   (0 when no response body was parsed). *)
Catch(i, e, r) ==
    Complete(i, FailureMessage(e), Op("fail", e, r, inflight[i].stopped, speech # <<>>))

takePictureRejected(i, e) ==
    /\ inflight[i].pc = "capturing"
    /\ Catch(i, e, 0)

fetchRejected(i, e) ==
    /\ inflight[i].pc = "fetching"
    /\ Catch(i, e, 0)

jsonRejected(i, e) ==
    /\ inflight[i].pc = "parsing"
    /\ Catch(i, e, 0)

(* response.json() resolved with Responses[r]. *)
jsonResolved(i, r) ==
    /\ inflight[i].pc = "parsing"
    /\ LET d == Descriptions[r]
       IN  IF d.throws
           THEN Catch(i, d.text, r)
           ELSE Complete(i, d.text, Op("describe", d.text, r, inflight[i].stopped, speech # <<>>))

-----------------------------------------------------------------------------
(* The utterance being spoken ends; the next queued one, if any, starts. *)
utteranceDone ==
    /\ speech # <<>>
    /\ speech' = Tail(speech)
    /\ lastOp' = Op("utteranceDone", Head(speech), 0, FALSE, FALSE)
    /\ UNCHANGED <<cameraModule, permAnnounced, hasPermission, cameraReady, currentMode, message,
                   isProcessing, permPc, permissionMessage, inflight, started>>

PermissionStatuses == {"granted", "denied", "undetermined"}
PermissionErrors == {"Permission module failure"}

Next ==
    \/ requestPermissions
    \/ \E status \in PermissionStatuses : permissionsResolved(status)
    \/ \E e \in PermissionErrors : permissionsRejected(e)
    \/ permissionTimer
    \/ onCameraReady
    \/ \E m \in Modes : ModeButtonPress(m)
    \/ StopButtonPress
    \/ CaptureButtonPress
    \/ \E i \in DOMAIN inflight : takePictureResolved(i)
    \/ \E i \in DOMAIN inflight : \E e \in CaptureErrors : takePictureRejected(i, e)
    \/ \E i \in DOMAIN inflight : fetchResolved(i)
    \/ \E i \in DOMAIN inflight : \E e \in FetchErrors : fetchRejected(i, e)
    \/ \E i \in DOMAIN inflight : \E r \in 1..NumResponses : jsonResolved(i, r)
    \/ \E i \in DOMAIN inflight : \E e \in JsonErrors : jsonRejected(i, e)
    \/ utteranceDone

Spec == Init /\ [][Next]_vars

(* Some pending await of some processImage invocation settles: the camera,
   the network call or the reading of the response body resolves or rejects. *)
Settle ==
    \E i \in DOMAIN inflight :
        \/ takePictureResolved(i)
        \/ \E e \in CaptureErrors : takePictureRejected(i, e)
        \/ fetchResolved(i)
        \/ \E e \in FetchErrors : fetchRejected(i, e)
        \/ \E r \in 1..NumResponses : jsonResolved(i, r)
        \/ \E e \in JsonErrors : jsonRejected(i, e)

(* The application under the assumption that no await of processImage stays
   pending for ever. *)
SpecFair == Spec /\ WF_vars(Settle)

(* processImage called directly, whatever the capture button allows. *)
processImageCall == processImage

NextCall == Next \/ processImageCall

SpecCall == Init /\ [][NextCall]_vars

-----------------------------------------------------------------------------
(* Properties. *)

FinishOps == {"describe", "fail"}

AnnounceOps == {"noModule", "permissionAnnounce", "mode", "stop", "notReady",
                "describe", "fail"}

MainUIOps == {"cameraReady", "mode", "stop", "capture", "notReady",
              "photo", "response", "describe", "fail"}

(* C1: in every reachable state at most one processImage invocation is in
   flight (past the readiness check and not yet finished). *)
C1_AtMostOneInFlight == Len(inflight) <= 1

(* C2: whenever processing is true, some processImage invocation has started
   and has neither finished (response or failure) nor been followed by a
   stop(). *)
C2_ProcessingOnlyInWindow ==
    isProcessing => \E i \in DOMAIN inflight : ~inflight[i].stopped

C2_Witness ==
    /\ isProcessing
    /\ Len(inflight) = 2
    /\ inflight[1].stopped
    /\ ~inflight[2].stopped

(* C3: at the step that finishes a processImage invocation (description,
   fallback or failure), processing is false and the resulting text is both
   displayed and the one utterance being spoken. *)
C3_FinishAnnouncesResult ==
    [][lastOp'.op \in FinishOps =>
          /\ isProcessing' = FALSE
          /\ message' = (IF lastOp'.op = "describe" THEN lastOp'.text
                         ELSE "Failed to get description: " \o lastOp'.text
                                  \o ". Please try again.")
          /\ speech' = <<message'>>]_vars

C3_Witness ==
    /\ lastOp.op = "describe"
    /\ lastOp.resp = 2
    /\ message = "No clear description was generated. Please try again."
    /\ speech = <<message>>
    /\ ~isProcessing

(* C4: a stop() made while a capture is in flight leaves processing false,
   leaves no earlier utterance on the speech channel, and announces
   'Stopped all operations'. *)
C4_StopDuringCapture ==
    [][(lastOp'.op = "stop" /\ inflight # <<>>) =>
          /\ isProcessing' = FALSE
          /\ message' = "Stopped all operations"
          /\ speech' = <<"Stopped all operations">>
          /\ Len(inflight') = Len(inflight)]_vars

C4_Witness ==
    /\ lastOp.op = "stop"
    /\ lastOp.stopped
    /\ lastOp.pre
    /\ inflight # <<>>
    /\ ~isProcessing
    /\ speech = <<"Stopped all operations">>

(* C5: when the response of a capture that was followed by stop() arrives,
   its description is still displayed and spoken, in place of the 'stopped'
   message. *)
C5_StaleResultDelivered ==
    [][(lastOp'.op = "describe" /\ lastOp'.stopped) =>
          /\ message' = lastOp'.text
          /\ message' # "Stopped all operations"
          /\ speech' = <<lastOp'.text>>
          /\ (lastOp'.resp = 1 => message' = "Room 204")]_vars

C5_Witness ==
    /\ lastOp.op = "describe"
    /\ lastOp.stopped
    /\ lastOp.resp = 1
    /\ message = "Room 204"
    /\ speech = <<"Room 204">>

(* C6: processImage invoked while cameraReady is false or the camera
   reference is unset starts no capture and no request, announces the
   'Camera not ready' message, and leaves processing and mode unchanged. *)
C6_NotReadyAborts ==
    [][(lastOp'.op \in {"capture", "notReady"} /\ (~cameraReady \/ ~cameraRefCurrent)) =>
          /\ lastOp'.op = "notReady"
          /\ inflight' = inflight
          /\ started' = started
          /\ isProcessing' = isProcessing
          /\ currentMode' = currentMode
          /\ message' = "Camera not ready. Please wait or refresh the app."
          /\ speech' = <<message'>>]_vars

C6_Witness ==
    /\ lastOp.op = "notReady"
    /\ ~cameraReady
    /\ hasPermission = "true"
    /\ message = "Camera not ready. Please wait or refresh the app."
    /\ speech = <<message>>
    /\ inflight = <<>>

(* C7: at most one utterance is on the speech channel, and every announce
   leaves exactly the announced text there: the utterance it pre-empts is
   neither kept nor queued. *)
C7_SingleUtterance ==
    /\ [](Len(speech) <= 1)
    /\ [][lastOp'.op \in AnnounceOps => speech' = <<message'>>]_vars
    /\ [][speech' = speech \/ speech' = <<>> \/ lastOp'.op \in AnnounceOps]_vars

C7_Witness ==
    /\ lastOp.op = "mode"
    /\ lastOp.pre
    /\ lastOp.text = "read"
    /\ speech = <<ModeMessage("read")>>

(* C8: a failure of the capture, of the network call or of the JSON parse is
   displayed and spoken as 'Failed to get description: <error message>.
   Please try again.', and processing is false afterwards. *)
C8_FailureAnnounced ==
    [][lastOp'.op = "fail" =>
          /\ message' = "Failed to get description: " \o lastOp'.text \o ". Please try again."
          /\ (lastOp'.text = "timeout" =>
                 message' = "Failed to get description: timeout. Please try again.")
          /\ speech' = <<message'>>
          /\ isProcessing' = FALSE]_vars

C8_Witness ==
    /\ lastOp.op = "fail"
    /\ lastOp.text = "timeout"
    /\ message = "Failed to get description: timeout. Please try again."
    /\ speech = <<message>>
    /\ ~isProcessing

(* The response shape of the claim: a first candidate whose content has a
   first part carrying a text. *)
C9_HasFirstText(result) ==
    /\ result.k = "object"
    /\ "candidates" \in DOMAIN result.v
    /\ result.v.candidates.k = "array"
    /\ Len(result.v.candidates.v) > 0
    /\ LET c == result.v.candidates.v[1] IN
       /\ c.k = "object"
       /\ "content" \in DOMAIN c.v
       /\ c.v.content.k = "object"
       /\ "parts" \in DOMAIN c.v.content.v
       /\ c.v.content.v.parts.k = "array"
       /\ Len(c.v.content.v.parts.v) > 0
       /\ LET p == c.v.content.v.parts.v[1] IN
          /\ p.k = "object"
          /\ "text" \in DOMAIN p.v
          /\ p.v.text.k = "string"

C9_FirstText(result) == result.v.candidates.v[1].v.content.v.parts.v[1].v.text.v

(* C9: after a response body has been handled, the announced result is the
   first text of the response when it has one, and the fixed fallback string
   otherwise; no exception is raised. *)
C9_ResponseExtraction ==
    lastOp.resp # 0 =>
        /\ lastOp.op = "describe"
        /\ message = (IF C9_HasFirstText(Responses[lastOp.resp])
                      THEN C9_FirstText(Responses[lastOp.resp])
                      ELSE "No clear description was generated. Please try again.")
        /\ speech = <<message>>

(* C10: the permission status is one of unknown, granted, denied; while it
   is not granted nothing of the main UI happens (mode and processing keep
   their initial values, no capture is in flight); once resolved it never
   changes; a missing camera module gives the denied status. *)
C10_PermissionGate ==
    /\ [](hasPermission \in {"null", "true", "false"})
    /\ [](hasPermission # "true" =>
            /\ lastOp.op \notin MainUIOps
            /\ currentMode = "passive"
            /\ ~isProcessing
            /\ ~cameraReady
            /\ inflight = <<>>
            /\ started = 0)
    /\ [][hasPermission # "null" => hasPermission' = hasPermission]_vars
    /\ []((~cameraModule /\ permPc # "mount") => hasPermission = "false")

C10_Witness ==
    /\ ~cameraModule
    /\ hasPermission = "false"
    /\ permPc = "done"
    /\ currentMode = "passive"
    /\ message = "Camera module not found or not functional."

(* C11: whatever the outcome of the startup permission request, its status
   is announced exactly once, by the delayed timer: not at all before the
   timer has fired, once after it. *)
C11_AnnouncedOnceAfterDelay ==
    /\ permPc # "done" => permAnnounced = 0
    /\ permPc = "done" => permAnnounced = 1

(* C12: selecting a mode sets the mode to the selected one and announces
   that mode's confirmation string; the selection is accepted while
   processing is true, and leaves processing, cameraReady, the permission
   status and the captures in flight as they were. *)
C12_ModeSelection ==
    /\ [][lastOp'.op = "mode" =>
             /\ currentMode' = lastOp'.text
             /\ currentMode' \in {"read", "navigate", "passive"}
             /\ (currentMode' = "read" =>
                    message' = "Mode set to Read. Tap \"Read Document\" to scan text.")
             /\ (currentMode' = "navigate" =>
                    message' = "Mode set to Navigate. Tap \"Get Navigation Cues\" for indoor guidance.")
             /\ (currentMode' = "passive" =>
                    message' = "Mode set to Passive. Tap \"Describe Environment\" for general descriptions.")
             /\ speech' = <<message'>>
             /\ isProcessing' = isProcessing
             /\ cameraReady' = cameraReady
             /\ hasPermission' = hasPermission
             /\ inflight' = inflight]_vars
    /\ []((hasPermission = "true" /\ isProcessing) =>
             \A m \in {"read", "navigate", "passive"} : ENABLED ModeButtonPress(m))

C12_Witness ==
    /\ lastOp.op = "mode"
    /\ lastOp.text = "navigate"
    /\ currentMode = "navigate"
    /\ isProcessing
    /\ inflight # <<>>
    /\ speech = <<"Mode set to Navigate. Tap \"Get Navigation Cues\" for indoor guidance.">>

(* C13: the step in which processImage passes the readiness check sets
   processing to true, displays the 'Analyzing image' status without
   speaking it, and leaves no utterance active. *)
C13_CaptureStart ==
    [][started' # started =>
          /\ lastOp'.op = "capture"
          /\ isProcessing' = TRUE
          /\ message' = "Analyzing image, please wait..."
          /\ speech' = <<>>]_vars

C13_Witness ==
    /\ lastOp.op = "capture"
    /\ lastOp.pre
    /\ isProcessing
    /\ message = "Analyzing image, please wait..."
    /\ speech = <<>>

(* C14: whenever an utterance is active, the displayed message is the text
   of that utterance. *)
C14_DisplayMirrorsSpeech == speech # <<>> => message = Head(speech)

C14_Witness ==
    /\ speech = <<"Room 204">>
    /\ message = "Room 204"
    /\ lastOp.op = "describe"

(* C15: while a capture is in flight and no stop() was made since it
   started, processing is true; in particular the completion of an earlier,
   stopped capture does not clear the flag of a later one. *)
C15_ProcessingWhileInFlight ==
    (\E i \in DOMAIN inflight : ~inflight[i].stopped) => isProcessing

(* C16: a capture records the mode selected when it was triggered, and the
   prompt it sends is that mode's prompt; a mode selection made while the
   capture is in flight changes neither its mode nor its prompt, and does
   not end it. *)
C16_PromptFromTriggerMode ==
    /\ [][started' # started =>
             /\ Len(inflight') = Len(inflight) + 1
             /\ inflight'[Len(inflight')].mode = currentMode
             /\ inflight'[Len(inflight')].prompt = ""]_vars
    /\ [][lastOp'.op = "mode" => inflight' = inflight]_vars
    /\ [][\A i \in DOMAIN inflight :
             (i \in DOMAIN inflight' /\ Len(inflight') = Len(inflight)) =>
                 /\ inflight'[i].mode = inflight[i].mode
                 /\ (inflight[i].prompt # "" => inflight'[i].prompt = inflight[i].prompt)]_vars
    /\ [](\A i \in DOMAIN inflight :
             inflight[i].pc \in {"fetching", "parsing"} =>
                 /\ inflight[i].prompt = getPromptForMode(inflight[i].mode)
                 /\ (inflight[i].mode = "read" =>
                        inflight[i].prompt = "Extract all readable text from this image. No extra commentary or explanation. Prioritize the most important text."))

C16_Witness ==
    \E i \in DOMAIN inflight :
        /\ inflight[i].pc = "fetching"
        /\ inflight[i].mode = "read"
        /\ currentMode = "navigate"
        /\ inflight[i].prompt = getPromptForMode("read")
        /\ inflight[i].prompt # getPromptForMode(currentMode)

(* C17: through the user interface a capture starts only from a state in
   which permission is granted, the camera is ready and processing is false;
   in every other state the capture button starts nothing, and the
   'Camera not ready' branch of processImage is never taken. *)
C17_CaptureOnlyWhenEnabled ==
    /\ [][started' # started =>
             /\ hasPermission = "true"
             /\ cameraReady
             /\ ~isProcessing]_vars
    /\ [](lastOp.op # "notReady")
    /\ [](~(hasPermission = "true" /\ cameraReady /\ ~isProcessing) =>
             ~ENABLED CaptureButtonPress)

C17_Witness ==
    /\ lastOp.op = "capture"
    /\ hasPermission = "true"
    /\ cameraReady
    /\ isProcessing
    /\ Len(inflight) = 1
    /\ ~ENABLED CaptureButtonPress

(* C18: if the awaited capture and network calls always settle, every
   started capture finishes: its result or error is announced and processing
   becomes false.  Nothing but a finishing capture or stop() clears
   processing: there is no timeout. *)
C18_CaptureEventuallyFinishes ==
    /\ (inflight # <<>> \/ isProcessing) ~>
           (inflight = <<>> /\ ~isProcessing /\ lastOp.op \in FinishOps /\ speech = <<message>>)
    /\ [][(isProcessing /\ ~isProcessing') => lastOp'.op \in FinishOps \cup {"stop"}]_vars

C18_Witness ==
    /\ started > 0
    /\ inflight = <<>>
    /\ lastOp.op \in FinishOps
    /\ ~lastOp.stopped
    /\ ~isProcessing
    /\ speech = <<message>>

====
